---- MODULE Spec2Model ----
(***************************************************************************)
(* Listify backend: the media catalog (crud/media.py) and the tracking     *)
(* lifecycle (crud/tracking.py) as a state machine over the committed rows *)
(* of the media and tracking tables.                                        *)
(*                                                                         *)
(* A nullable column or an Optional field is an option value: None is the  *)
(* empty sequence, Some(v) the one-element sequence <<v>>.  A pydantic     *)
(* payload dumped with exclude_unset=True is a function whose DOMAIN is    *)
(* the set of fields the caller supplied.                                   *)
(***************************************************************************)
EXTENDS Integers, Sequences, FiniteSets, TLC

\* ------------------------------------------------------------------ bounds
MaxMedia == 2
MaxTracking == 2
MaxDay == 2
MaxRequests == 2
MaxTags == 2

\* ------------------------------------------------------------- value sets
None == <<>>
Some(v) == <<v>>

\* user ids: an owner and another user
Users == {1, 2}
Days == 1..MaxDay

PLANNED == "planned"
IN_PROGRESS == "in_progress"
COMPLETED == "completed"
DROPPED == "dropped"
ON_HOLD == "on_hold"
TrackingStatusEnum == {PLANNED, IN_PROGRESS, COMPLETED, DROPPED, ON_HOLD}
TrackingPriorityEnum == {"low", "mid", "high"}
MediaTypeEnum == {"movie", "book"}

Max(S) == CHOOSE x \in S : \A y \in S : y <= x

\* An INTEGER PRIMARY KEY column of the default SQLite database: the next id
\* is one more than the largest id present in the table.
NextId(table) == Max(DOMAIN table \cup {0}) + 1

\* f with key k removed / with k bound to v
Without(f, ks) == [k \in DOMAIN f \ ks |-> f[k]]
With(f, k, v) == [x \in DOMAIN f \cup {k} |-> IF x = k THEN v ELSE f[x]]

\* obj_data.get(field): the supplied value, None when the field is unset
Get(obj_data, field) == IF field \in DOMAIN obj_data THEN obj_data[field] ELSE None

VARIABLES media, tracking, today, session, last, requests, files, tag, cache, sweeper
vars == <<media, tracking, today, session, last, requests, files, tag, cache, sweeper>>

\* -------------------------------------------------------- tracking rules
\* CRUDTracking._apply_data_integrity_rules, one operator per rule; day is
\* what date.today() returns during the call.

\* (mutant) the priority rule left out
RulePriorityKept(db_obj) == db_obj

\* Rule: Priority is ONLY for Planned
RulePriority(db_obj) ==
    IF db_obj.status # Some(PLANNED) THEN [db_obj EXCEPT !.priority = None] ELSE db_obj

\* (mutant) the planned rule clears the rating and the dates but not progress
RulePlannedKeepsProgress(db_obj) ==
    IF db_obj.status = Some(PLANNED)
    THEN [db_obj EXCEPT !.rating = None, !.start_date = None, !.end_date = None]
    ELSE db_obj

\* Rule: Planned has no rating, progress, or dates
RulePlanned(db_obj) ==
    IF db_obj.status = Some(PLANNED)
    THEN [db_obj EXCEPT !.rating = None, !.progress = Some(0),
                        !.start_date = None, !.end_date = None]
    ELSE db_obj

\* (mutant) start_date is kept only while the entry is in progress
RuleStartDateInProgressOnly(db_obj, day) ==
    IF db_obj.status = Some(IN_PROGRESS) /\ db_obj.start_date = None
    THEN [db_obj EXCEPT !.start_date = Some(day)]
    ELSE IF db_obj.status # Some(IN_PROGRESS)
    THEN [db_obj EXCEPT !.start_date = None] ELSE db_obj

\* (mutant) start_date is stamped whenever the status is in_progress
RuleStartDateAlways(db_obj, day) ==
    IF db_obj.status = Some(IN_PROGRESS)
    THEN [db_obj EXCEPT !.start_date = Some(day)] ELSE db_obj

\* Rule: Auto-set start_date for in_progress
RuleStartDate(db_obj, day) ==
    IF db_obj.status = Some(IN_PROGRESS) /\ db_obj.start_date = None
    THEN [db_obj EXCEPT !.start_date = Some(day)] ELSE db_obj

\* (mutant) end_date is stamped whenever the status is completed or dropped
RuleEndDateAlways(db_obj, day) ==
    IF db_obj.status \in {Some(COMPLETED), Some(DROPPED)}
    THEN [db_obj EXCEPT !.end_date = Some(day)] ELSE db_obj

\* Rule: Auto-set end_date for completed/dropped
RuleEndDate(db_obj, day) ==
    IF db_obj.status \in {Some(COMPLETED), Some(DROPPED)} /\ db_obj.end_date = None
    THEN [db_obj EXCEPT !.end_date = Some(day)] ELSE db_obj

\* (mutant) end_date is cleared only for planned entries
RuleClearEndDatePlannedOnly(db_obj) ==
    IF db_obj.status = Some(PLANNED) THEN [db_obj EXCEPT !.end_date = None] ELSE db_obj

\* Rule: Moving AWAY from completed/dropped nullifies end_date
RuleClearEndDate(db_obj) ==
    IF db_obj.status \notin {Some(COMPLETED), Some(DROPPED)}
    THEN [db_obj EXCEPT !.end_date = None] ELSE db_obj

\* the five rules in the order the method applies them
apply_data_integrity_rules(db_obj, day) ==
    RuleClearEndDate(RuleEndDate(RuleStartDate(RulePlanned(RulePriority(db_obj)), day), day))

\* ------------------------------------------------------------ call record
\* What the last finished call was and what it returned: op, the outcome
\* ret, the calling user uid and the media id mid (options), the id of the
\* returned or affected row rid (option), args, the part of the payload the
\* call's contract speaks of, and cascade, the media rows a tracking.delete
\* removed along with the entry.
Call(op, ret, uid, mid, rid, args) ==
    [op |-> op, ret |-> ret, uid |-> uid, mid |-> mid, rid |-> rid, args |-> args,
     cascade |-> {}]
NoFields == [k \in {} |-> None]
RuleFields == {"priority", "start_date", "end_date"}
Supplied(obj_data) == [k \in DOMAIN obj_data \cap RuleFields |-> obj_data[k]]

\* The request session of an in-flight tracking.delete: what it has read and
\* the row deletions it has staged but not committed.
Idle == [stage |-> "idle", uid |-> 0, mid |-> 0, tid |-> 0,
         del_tracking |-> {}, del_media |-> {}]

\* The requests of other sessions that are between two of their steps: a
\* function from the request's number to what it has read or staged so far.
NoRequests == [r \in {} |-> None]

\* ------------------------------------------------------- tracking queries
\* CRUDTracking.get_by_user_and_media: the ids of the matching rows
\* (scalar_one_or_none: at most one is expected).
\* (mutant) the two filter arguments swapped
get_by_user_and_media_swapped(user_id, media_id) ==
    {t \in DOMAIN tracking : tracking[t].user_id = media_id /\ tracking[t].media_id = user_id}

get_by_user_and_media(user_id, media_id) ==
    {t \in DOMAIN tracking : tracking[t].user_id = user_id /\ tracking[t].media_id = media_id}

TrackingFields == {"status", "priority", "rating", "progress", "start_date", "end_date"}

\* Tracking(**obj_data): attributes that were not passed read as None.
NewTracking(obj_data, user_id) ==
    [user_id |-> user_id,
     media_id |-> obj_data["media_id"][1],
     media_type |-> obj_data["media_type"][1],
     status |-> Get(obj_data, "status"),
     priority |-> Get(obj_data, "priority"),
     rating |-> Get(obj_data, "rating"),
     progress |-> Get(obj_data, "progress"),
     start_date |-> Get(obj_data, "start_date"),
     end_date |-> Get(obj_data, "end_date")]

\* INSERT: Column(Integer, default=0) fills progress when the attribute was
\* never set.
InsertDefaults(db_obj, obj_data) ==
    IF db_obj.progress = None /\ "progress" \notin DOMAIN obj_data
    THEN [db_obj EXCEPT !.progress = Some(0)] ELSE db_obj

\* for field, value in obj_data.items(): setattr(tracking, field, value)
SetAttrs(db_obj, obj_data) ==
    [f \in DOMAIN db_obj |->
        IF f \in DOMAIN obj_data \cap TrackingFields THEN obj_data[f] ELSE db_obj[f]]

\* status is nullable=False: the commit raises IntegrityError on a null status.
CommitAccepts(db_obj) == db_obj.status # None

\* ------------------------------------------------------- tracking listing
\* (mutant) the priorities in the order of their stored names
priority_order_by_name(priority) ==
    CASE priority = Some("mid") -> 3
      [] priority = Some("low") -> 2
      [] priority = Some("high") -> 1
      [] OTHER -> 0

\* case((priority == HIGH, 3), (priority == MID, 2), (priority == LOW, 1), else_=0)
priority_order(priority) ==
    CASE priority = Some("high") -> 3
      [] priority = Some("mid") -> 2
      [] priority = Some("low") -> 1
      [] OTHER -> 0

\* order_by(desc(key), Tracking.id.desc()) over the rows ids
RECURSIVE order_by_desc(_, _)
order_by_desc(ids, key) ==
    IF ids = {} THEN <<>>
    ELSE LET first == CHOOSE t \in ids :
                         \A u \in ids : key[t] > key[u] \/ (key[t] = key[u] /\ t >= u)
         IN <<first>> \o order_by_desc(ids \ {first}, key)

\* Query(100, ge=1, le=1000)
DefaultLimit == 100

\* CRUDTracking.get_by_user: the ids of the rows in the order returned
\* (sort_by "priority", "rating", "created_at" or none; "title" is not drawn)
get_by_user(user_id, status, media_type, sort_by, skip, limit) ==
    LET rows == {t \in DOMAIN tracking :
                    /\ tracking[t].user_id = user_id
                    /\ status # None => tracking[t].status = status
                    /\ media_type # None => tracking[t].media_type = media_type[1]}
        by_priority == [t \in rows |-> priority_order(tracking[t].priority)]
        \* a NULL rating sorts below every rating
        by_rating   == [t \in rows |-> IF tracking[t].rating = None THEN 0 - 1
                                       ELSE tracking[t].rating[1]]
        by_id       == [t \in rows |-> 0]
        key == IF sort_by = Some("priority") THEN by_priority
               ELSE IF sort_by = Some("rating") THEN by_rating
               ELSE IF sort_by = Some("created_at") THEN by_id
               ELSE IF status = Some(PLANNED) THEN by_priority
               ELSE by_id
        ordered == order_by_desc(rows, key)
    IN SubSeq(ordered, skip + 1, IF skip + limit < Len(ordered) THEN skip + limit
                                 ELSE Len(ordered))

\* routes/tracking.py get_user_tracking
TrackingList(user_id, status, sort_by) ==
    /\ session.stage = "idle"
    /\ last' = Call("tracking.list", "ok", Some(user_id), None, None,
                    [status |-> status, sort_by |-> sort_by,
                     result |-> Some(get_by_user(user_id, status, None, sort_by,
                                                 0, DefaultLimit))])
    /\ UNCHANGED <<media, tracking, today, session, requests, files, tag, cache, sweeper>>

\* ---------------------------------------------------- tracking operations
\* CRUDTracking.create
TrackingCreate(user_id, obj_in) ==
    LET media_id == obj_in["media_id"][1]
        existing == get_by_user_and_media(user_id, media_id)
        obj      == apply_data_integrity_rules(NewTracking(obj_in, user_id), today)
        id       == NextId(tracking)
    IN /\ session.stage = "idle"
       /\ IF existing # {}
          THEN /\ tracking' = tracking
               /\ last' = Call("tracking.create", "AlreadyExists", Some(user_id),
                               Some(media_id), None, Supplied(obj_in))
          ELSE /\ id <= MaxTracking
               /\ tracking' = With(tracking, id, InsertDefaults(obj, obj_in))
               /\ last' = Call("tracking.create", "ok", Some(user_id),
                               Some(media_id), Some(id), Supplied(obj_in))
       /\ UNCHANGED <<media, today, session>>
       /\ UNCHANGED <<requests, files, tag, cache, sweeper>>

\* routes/tracking.py update_tracking + CRUDTracking.update
TrackingUpdate(user_id, media_id, obj_in) ==
    LET found == get_by_user_and_media(user_id, media_id)
    IN /\ session.stage = "idle"
       /\ IF found = {}
          THEN /\ tracking' = tracking
               /\ last' = Call("tracking.update", "NotFound", Some(user_id),
                               Some(media_id), None, Supplied(obj_in))
          ELSE LET id  == CHOOSE t \in found : TRUE
                   obj == apply_data_integrity_rules(SetAttrs(tracking[id], obj_in), today)
               IN IF CommitAccepts(obj)
                  THEN /\ tracking' = [tracking EXCEPT ![id] = obj]
                       /\ last' = Call("tracking.update", "ok", Some(user_id),
                                       Some(media_id), Some(id), Supplied(obj_in))
                  ELSE /\ tracking' = tracking
                       /\ last' = Call("tracking.update", "IntegrityError", Some(user_id),
                                       Some(media_id), Some(id), Supplied(obj_in))
       /\ UNCHANGED <<media, today, session>>
       /\ UNCHANGED <<requests, files, tag, cache, sweeper>>

\* date.today() moves on between calls
Tick ==
    /\ today < MaxDay
    /\ today' = today + 1
    /\ last' = Call("tick", "ok", None, None, None, NoFields)
    /\ UNCHANGED <<media, tracking, session>>
    /\ UNCHANGED <<requests, files, tag, cache, sweeper>>

\* ----------------------------------------------------------- media queries
\* Python truthiness of an Optional[str] / Optional[int] value
TruthyStr(opt) == opt # None /\ opt[1] # ""
TruthyId(opt) == opt # None /\ opt[1] # 0

\* CRUDMedia.get_by_id
get_by_id(id, media_type) ==
    {m \in DOMAIN media : m = id /\ (media_type = None \/ media[m].media_type = media_type[1])}

\* (mutant) external_id and external_source compared with each other's column
get_by_external_id_swapped(external_id, external_source, media_type) ==
    {m \in DOMAIN media : /\ media[m].external_id = external_source
                          /\ media[m].external_source = external_id
                          /\ media[m].media_type = media_type}

\* CRUDMedia.get_by_external_id
get_by_external_id(external_id, external_source, media_type) ==
    {m \in DOMAIN media : /\ media[m].external_id = external_id
                          /\ media[m].external_source = external_source
                          /\ media[m].media_type = media_type}

\* the duplicate check for custom media in _create_with_tags (release_date
\* is never supplied here, so the filter is release_date IS NULL on both sides)
CustomDuplicates(user_id, media_type, title) ==
    {m \in DOMAIN media : /\ media[m].is_custom
                          /\ media[m].created_by_id = user_id
                          /\ media[m].media_type = media_type
                          /\ media[m].title = title}

\* (mutant) any user may modify a custom row
can_modify_media_any_user(row, user_id) == row.is_custom

\* CRUDMedia.can_modify_media
can_modify_media(row, user_id) ==
    IF ~row.is_custom THEN FALSE ELSE row.created_by_id = Some(user_id)

\* the guard of _update_with_tags and delete:
\* if user_id and not self.can_modify_media(media, user_id): raise PermissionDenied
PermissionDenied(row, user_id) ==
    TruthyId(user_id) /\ ~can_modify_media(row, user_id[1])

\* model_class(**obj_data) after the created_by_id assignment; is_custom has
\* the column default False
NewMedia(media_type, obj_data, created_by_id, tags) ==
    [media_type |-> media_type,
     title |-> obj_data["title"][1],
     external_id |-> Get(obj_data, "external_id"),
     external_source |-> Get(obj_data, "external_source"),
     is_custom |-> IF Get(obj_data, "is_custom") = None THEN FALSE
                   ELSE obj_data["is_custom"][1],
     created_by_id |-> created_by_id,
     cover_image_url |-> Get(obj_data, "cover_image_url"),
     tags |-> tags]

\* session.delete(media) with relationship cascade="all, delete-orphan" on
\* Media.tracking_entries (and on tag_associations, which live in the row here)
DeleteMediaRows(ids) == Without(media, ids)
DeleteTrackingRows(tids, mids) ==
    Without(tracking, tids \cup {t \in DOMAIN tracking : tracking[t].media_id \in mids})

\* ------------------------------------------------------------------ tags
\* A tag name is a sequence of characters, so that lower(), strip(), the two
\* re.sub calls of _slugify and the LIKE match of ilike() are computed
\* character by character. tag maps a tag id to its row (name, slug).
LowerOf(c) == CASE c = "S" -> "s" [] c = "F" -> "f" [] OTHER -> c
IsSpace(c) == c = " "
\* \w of the characters in use
IsWord(c) == c \in {"s", "f", "S", "F", "_"}

\* str.lower()
Lower(text) == [i \in 1..Len(text) |-> LowerOf(text[i])]

RECURSIVE LStrip(_)
LStrip(text) ==
    IF text # <<>> /\ IsSpace(Head(text)) THEN LStrip(Tail(text)) ELSE text
RECURSIVE RStrip(_)
RStrip(text) ==
    IF text # <<>> /\ IsSpace(text[Len(text)])
    THEN RStrip(SubSeq(text, 1, Len(text) - 1)) ELSE text
\* str.strip()
Strip(text) == RStrip(LStrip(text))

\* re.sub(r"[^\w\s-]", "", text)
KeepsInSlug(c) == IsWord(c) \/ IsSpace(c) \/ c = "-"
DropOthers(text) == SelectSeq(text, KeepsInSlug)

\* re.sub(r"[-\s]+", "-", text)
IsSeparator(c) == IsSpace(c) \/ c = "-"
RECURSIVE SkipSeparators(_)
SkipSeparators(text) ==
    IF text # <<>> /\ IsSeparator(Head(text)) THEN SkipSeparators(Tail(text)) ELSE text
RECURSIVE CollapseSeparators(_)
CollapseSeparators(text) ==
    IF text = <<>> THEN <<>>
    ELSE IF IsSeparator(Head(text))
    THEN <<"-">> \o CollapseSeparators(SkipSeparators(text))
    ELSE <<Head(text)>> \o CollapseSeparators(Tail(text))

\* CRUDTag._slugify
slugify(text) == CollapseSeparators(DropOthers(Strip(Lower(text))))

\* (mutant) the name is compared as it is: Tag.name == name
ilike_exact(text, pattern) == text = pattern

\* Tag.name.ilike(name): LIKE without regard to case; "%" in the pattern
\* stands for any run of characters and "_" for any one character
RECURSIVE ilike(_, _)
ilike(text, pattern) ==
    IF pattern = <<>> THEN text = <<>>
    ELSE IF Head(pattern) = "%"
    THEN ilike(text, Tail(pattern)) \/ (text # <<>> /\ ilike(Tail(text), pattern))
    ELSE /\ text # <<>>
         /\ Head(pattern) = "_" \/ LowerOf(Head(pattern)) = LowerOf(Head(text))
         /\ ilike(Tail(text), Tail(pattern))

\* CRUDTag.get_by_name: .first() of the matching rows, which a scan of the
\* table yields in id order
first_by_name(tags, name) ==
    LET matching == {t \in DOMAIN tags : ilike(tags[t].name, name)}
    IN IF matching = {} THEN None
       ELSE Some(CHOOSE t \in matching : \A u \in matching : t <= u)
get_by_name(name) == first_by_name(tag, name)

\* Column(..., unique=True) on Tag.name and on Tag.slug
TagInsertAccepted(tags, row) ==
    \A t \in DOMAIN tags : tags[t].name # row.name /\ tags[t].slug # row.slug

\* CRUDTag.get_or_create on the tag table as the session sees it: the table
\* afterwards, the tag returned, and whether db.commit() was reached
get_or_create(tags, raw_name) ==
    LET name == Strip(raw_name)
        existing_tag == first_by_name(tags, name)
        row == [name |-> name, slug |-> slugify(name)]
        id  == NextId(tags)
    IN IF existing_tag # None
       THEN [tag |-> tags, id |-> existing_tag, ret |-> "ok", committed |-> FALSE]
       ELSE IF ~TagInsertAccepted(tags, row)
       THEN \* db.commit() raises; nothing in get_or_create handles it
            [tag |-> tags, id |-> None, ret |-> "IntegrityError", committed |-> FALSE]
       ELSE [tag |-> With(tags, id, row), id |-> Some(id), ret |-> "ok",
             committed |-> TRUE]

\* a direct call of get_or_create
TagGetOrCreate(raw_name) ==
    LET got == get_or_create(tag, raw_name)
    IN /\ \A t \in DOMAIN got.tag : t <= MaxTags
       /\ tag' = got.tag
       /\ last' = Call("tag.get_or_create", got.ret, None, None, got.id,
                       [name |-> Some(raw_name)])
       /\ UNCHANGED <<media, tracking, today, session, requests, files, cache, sweeper>>

\* add_tags_to_media: the names stripped, without the blank ones and without
\* those seen before in another case, in the order given
RECURSIVE unique_names(_, _)
unique_names(tag_names, seen) ==
    IF tag_names = <<>> THEN <<>>
    ELSE LET name == Strip(Head(tag_names))
         IN IF name # <<>> /\ Lower(name) \notin seen
            THEN <<name>> \o unique_names(Tail(tag_names), seen \cup {Lower(name)})
            ELSE unique_names(Tail(tag_names), seen)

\* The session of a media create or update while it works on the tags of one
\* media row: tag is the tag table as the session sees it, stored the
\* committed tag table, attached the committed associations of
\* the row, pending the associations added and not yet committed, written
\* says whether a commit has made the flushed row (or its changed fields)
\* permanent, ret is "ok" or the error raised.
TagSession(attached) ==
    [tag |-> tag, stored |-> tag, attached |-> attached, pending |-> {},
     written |-> FALSE, ret |-> "ok"]

\* db.commit()
CommitTags(s) ==
    [s EXCEPT !.stored = s.tag, !.attached = @ \cup s.pending, !.pending = {},
              !.written = TRUE]

\* the loop of add_tags_to_media over unique_names; the step fail_at raises
\* a database error (0: none does)
RECURSIVE add_tags_loop(_, _, _, _)
add_tags_loop(s, names, fail_at, i) ==
    IF names = <<>> THEN CommitTags(s)
    ELSE IF fail_at = i THEN [s EXCEPT !.ret = "DatabaseError"]
    ELSE LET got == get_or_create(s.tag, Head(names))
         IN IF got.ret # "ok" THEN [s EXCEPT !.ret = got.ret]
            ELSE LET \* db.commit() in get_or_create commits all the session holds
                     s1 == IF got.committed
                           THEN CommitTags([s EXCEPT !.tag = got.tag])
                           ELSE [s EXCEPT !.tag = got.tag]
                     \* the association is added unless the row has it
                     s2 == [s1 EXCEPT !.pending =
                               IF got.id[1] \in s1.attached THEN @
                               ELSE @ \cup {got.id[1]}]
                 IN add_tags_loop(s2, Tail(names), fail_at, i + 1)

\* CRUDTag.add_tags_to_media
add_tags_to_media(s, tag_names, fail_at) ==
    IF tag_names = <<>> THEN s
    ELSE add_tags_loop(s, unique_names(tag_names, {}), fail_at, 1)

\* CRUDTag.remove_tags_from_media with tag_ids=None
remove_tags_from_media(s) == CommitTags([s EXCEPT !.attached = {}, !.pending = {}])

\* CRUDTag.update_media_tags
update_media_tags(s, tag_names, fail_at) ==
    add_tags_to_media(remove_tags_from_media(s), tag_names, fail_at)

\* the steps of the loop at which an error can be raised
FailPoints(tag_names) == 0..Len(unique_names(tag_names, {}))

\* the tag table a media call leaves: after db.rollback() in its handler
\* what was not committed is gone
TagsAfter(s) == IF s.ret = "ok" THEN s.tag ELSE s.stored

\* ----------------------------------------------------------- result cache
\* cache is the store of provider responses: up says whether it can be
\* reached, keys are the cached entries, a search listing per source and the
\* details per (source, external id).
SearchKey(source) == <<source, "search">>
ItemKey(source, external_id) == <<source, external_id>>

\* (mutant) the error of an unreachable store is passed on to the caller
clear_pattern_raises_when_down(store) == ~store.up

\* cache.clear_pattern captures its errors: it never raises
clear_pattern_raises(store) == FALSE

\* cache.clear_pattern: the entries the pattern matches go, when the store
\* can be reached
clear_pattern(store, matching) ==
    IF store.up THEN [store EXCEPT !.keys = @ \ matching] ELSE store

\* services/base.py _get: a provider response is stored under its key
CacheSet(key) ==
    /\ cache.up
    /\ key \notin cache.keys
    /\ cache' = [cache EXCEPT !.keys = @ \cup {key}]
    /\ last' = Call("cache.set", "ok", None, None, None, NoFields)
    /\ UNCHANGED <<media, tracking, today, session, requests, files, tag, sweeper>>

\* the store becomes unreachable, or reachable again
CacheOutage ==
    /\ cache' = [cache EXCEPT !.up = ~@]
    /\ last' = Call("cache.outage", "ok", None, None, None, NoFields)
    /\ UNCHANGED <<media, tracking, today, session, requests, files, tag, sweeper>>

\* the patterns CRUDMedia clears after a create, an update and a delete
InvalidatedByCreate(external_source) ==
    IF TruthyStr(external_source) THEN {SearchKey(external_source[1])} ELSE {}
InvalidatedByUpdate(row) ==
    IF TruthyStr(row.external_id) /\ TruthyStr(row.external_source)
    THEN {ItemKey(row.external_source[1], row.external_id[1])} ELSE {}
InvalidatedByDelete(row) ==
    IF TruthyStr(row.external_id) /\ TruthyStr(row.external_source)
    THEN {ItemKey(row.external_source[1], row.external_id[1]),
          SearchKey(row.external_source[1])}
    ELSE {}

\* await cache.clear_pattern(...) raises inside the try block of the caller
InvalidationRaises(matching) == matching # {} /\ clear_pattern_raises(cache)

\* ------------------------------------------------------------ cover files
\* files is the set of the cover-image URLs whose file is on disk. The URLs
\* of the model that start with "/static/images/":
LocalImages == {"/static/images/a.png", "/static/images/b.png"}

\* routes/media.py upload_image: the file is written under a fresh name
UploadImage(url) ==
    /\ url \in LocalImages \ files
    /\ files' = files \cup {url}
    /\ last' = Call("upload", "ok", None, None, None, [url |-> Some(url)])
    /\ UNCHANGED <<media, tracking, today, session, requests, tag, cache, sweeper>>

\* the files CRUDMedia.delete will try to unlink for the rows ids:
\* cover_image_url is set, starts with "/static/images/" and is_file() holds
CoverFiles(ids) ==
    {media[m].cover_image_url[1] :
        m \in {x \in ids \cap DOMAIN media :
                  /\ TruthyStr(media[x].cover_image_url)
                  /\ media[x].cover_image_url[1] \in LocalImages
                  /\ media[x].cover_image_url[1] \in files}}

\* (mutant) the error of a failing unlink leaves the inner try
file_error_is_caught_never(failing) == failing = {}

\* except (PermissionError, OSError) ... except Exception ...: both handlers
\* only log, whatever unlinks failed
file_error_is_caught(failing) == TRUE

\* what is on disk after the cleanup of the rows ids when the unlinks of the
\* files in failing raise
FileCleanup(ids, failing) == files \ (CoverFiles(ids) \ failing)

\* what the call record says of the cleanup
Unlink(ids, failing) ==
    [unlink |-> IF CoverFiles(ids) = {} THEN None
                ELSE IF failing = {} THEN Some("done") ELSE Some("failed")]

\* ------------------------------------------------------- media operations
\* CRUDMedia._create_with_tags from model_class(**obj_data) on: the row is
\* flushed, the tags are attached, the commit and the cache invalidation follow
InsertWithTags(media_type, obj_in, user_id) ==
    LET external_source == Get(obj_in, "external_source")
        done(ret, rid) == Call("media.create", ret, user_id, None, rid,
                               With(obj_in, "media_type", Some(media_type)))
        owned  == Get(obj_in, "is_custom") = Some(TRUE) /\ TruthyId(user_id)
        tags   == IF Get(obj_in, "tags") = None THEN <<>> ELSE obj_in["tags"][1]
        id     == NextId(media)
        row(s) == NewMedia(media_type, obj_in, IF owned THEN user_id ELSE None,
                           s.attached)
    IN /\ id <= MaxMedia
       /\ \E fail_at \in FailPoints(tags) :
             \* "if tags: add_tags_to_media(...)"
             LET s == add_tags_to_media(TagSession({}), tags, fail_at)
             IN /\ \A t \in DOMAIN s.tag : t <= MaxTags
                /\ tag' = TagsAfter(s)
                /\ IF s.ret = "ok"
                   THEN \* db.commit(), then the cache; a raise there reaches
                        \* "except Exception: rollback; raise"
                        /\ media' = With(media, id, row(CommitTags(s)))
                        /\ cache' = clear_pattern(cache,
                                        InvalidatedByCreate(external_source))
                        /\ last' = IF InvalidationRaises(
                                          InvalidatedByCreate(external_source))
                                   THEN done("CacheError", None)
                                   ELSE done("ok", Some(id))
                   ELSE \* except Exception: db.rollback(); raise
                        /\ media' = IF s.written THEN With(media, id, row(s))
                                    ELSE media
                        /\ cache' = cache
                        /\ last' = done(s.ret, None)

\* CRUDMedia._create_with_tags (create_movie, create_book, ...)
MediaCreate(media_type, obj_in, user_id) ==
    LET external_id     == Get(obj_in, "external_id")
        external_source == Get(obj_in, "external_source")
        existing == IF TruthyStr(external_id) /\ TruthyStr(external_source)
                    THEN get_by_external_id(external_id, external_source, media_type)
                    ELSE {}
        is_custom == Get(obj_in, "is_custom") = Some(TRUE)
        owned     == is_custom /\ TruthyId(user_id)
        done(ret, rid) == Call("media.create", ret, user_id, None, rid,
                               With(obj_in, "media_type", Some(media_type)))
    IN /\ session.stage = "idle"
       /\ IF Cardinality(existing) > 1
          THEN UNCHANGED <<media, cache, tag>>
               /\ last' = done("MultipleResultsFound", None)
          ELSE IF existing # {}
          THEN UNCHANGED <<media, cache, tag>>
               /\ last' = done("ok", Some(CHOOSE m \in existing : TRUE))
          ELSE IF owned /\ CustomDuplicates(user_id, media_type, obj_in["title"][1]) # {}
          THEN UNCHANGED <<media, cache, tag>> /\ last' = done("AlreadyExists", None)
          ELSE InsertWithTags(media_type, obj_in, user_id)
       /\ UNCHANGED <<tracking, today, session>>
       /\ UNCHANGED <<requests, files, sweeper>>

\* CRUDMedia.update_movie/... + _update_with_tags; the payload is dumped
\* with exclude_none, so a null field is dropped like an unset one
MediaUpdate(id, media_type, obj_in, user_id) ==
    LET found == get_by_id(id, Some(media_type))
        done(ret) == Call("media.update", ret, user_id, Some(id), None, obj_in)
    IN /\ session.stage = "idle"
       /\ IF found = {}
          THEN UNCHANGED <<media, cache, tag>> /\ last' = done("NotFound")
          ELSE IF PermissionDenied(media[id], user_id)
          THEN UNCHANGED <<media, cache, tag>> /\ last' = done("PermissionDenied")
          ELSE LET tags == Get(obj_in, "tags")
                   \* setattr for every dumped field, then db.flush()
                   changed(attached) == [media EXCEPT
                       ![id].title = IF Get(obj_in, "title") = None THEN @
                                     ELSE obj_in["title"][1],
                       ![id].cover_image_url =
                           IF Get(obj_in, "cover_image_url") = None THEN @
                           ELSE obj_in["cover_image_url"],
                       ![id].tags = attached]
               IN \E fail_at \in (IF tags = None THEN {0} ELSE FailPoints(tags[1])) :
                     \* "if tags is not None: update_media_tags(...)"
                     LET s == IF tags = None THEN TagSession(media[id].tags)
                              ELSE update_media_tags(TagSession(media[id].tags),
                                                     tags[1], fail_at)
                     IN /\ \A t \in DOMAIN s.tag : t <= MaxTags
                        /\ tag' = TagsAfter(s)
                        /\ IF s.ret = "ok"
                           THEN \* db.commit(), then the cache
                                /\ media' = changed(CommitTags(s).attached)
                                /\ cache' = clear_pattern(cache,
                                                InvalidatedByUpdate(media[id]))
                                /\ last' = IF InvalidationRaises(
                                                  InvalidatedByUpdate(media[id]))
                                           THEN done("CacheError") ELSE done("ok")
                           ELSE \* except Exception: db.rollback(); raise
                                /\ media' = IF s.written THEN changed(s.attached)
                                            ELSE media
                                /\ cache' = cache
                                /\ last' = done(s.ret)
       /\ UNCHANGED <<tracking, today, session>>
       /\ UNCHANGED <<requests, files, sweeper>>

\* CRUDMedia.delete with commit=True
MediaDelete(id, user_id) ==
    LET found == get_by_id(id, None)
        done(ret, args) == Call("media.delete", ret, user_id, Some(id), None, args)
    IN /\ session.stage = "idle"
       /\ IF found = {}
          THEN UNCHANGED <<media, tracking, files, cache>> /\ last' = done("false", NoFields)
          ELSE IF PermissionDenied(media[id], user_id)
          THEN UNCHANGED <<media, tracking, files, cache>>
               /\ last' = done("PermissionDenied", NoFields)
          ELSE \E failing \in SUBSET CoverFiles({id}) :
                  /\ files' = FileCleanup({id}, failing)
                  /\ IF file_error_is_caught(failing)
                     THEN /\ media' = DeleteMediaRows({id})
                          /\ tracking' = DeleteTrackingRows({}, {id})
                          \* after the commit
                          /\ cache' = clear_pattern(cache, InvalidatedByDelete(media[id]))
                          /\ last' = IF InvalidationRaises(InvalidatedByDelete(media[id]))
                                     THEN done("CacheError", Unlink({id}, failing))
                                     ELSE done("true", Unlink({id}, failing))
                     ELSE \* except Exception: await db.rollback(); raise
                          /\ UNCHANGED <<media, tracking, cache>>
                          /\ last' = done("OSError", Unlink({id}, failing))
       /\ UNCHANGED <<today, session>>
       /\ UNCHANGED <<requests, tag, sweeper>>

\* (mutant) only custom rows are listed
orphaned_media_custom_only ==
    {m \in DOMAIN media : media[m].is_custom
                            /\ \A t \in DOMAIN tracking : tracking[t].media_id # m}

\* select(Media.id).where(Media.id.not_in(select(Tracking.media_id)))
orphaned_media ==
    {m \in DOMAIN media : \A t \in DOMAIN tracking : tracking[t].media_id # m}

\* CRUDMedia.cleanup_orphaned_media, run with no other request in flight:
\* every listed orphan is deleted with user_id=None, commit=False, then one commit
cleanup_orphaned_media ==
    LET orphaned_ids == orphaned_media
        matching == UNION {InvalidatedByDelete(media[m]) : m \in orphaned_ids}
    IN /\ session.stage = "idle"
       /\ \E failing \in SUBSET CoverFiles(orphaned_ids) :
             files' = FileCleanup(orphaned_ids, failing)
       /\ cache' = clear_pattern(cache, matching)
       /\ IF InvalidationRaises(matching)
          THEN \* self.delete rolls back and re-raises: nothing is committed
               /\ UNCHANGED <<media, tracking>>
               /\ last' = Call("sweep", "CacheError", None, None, None, NoFields)
          ELSE /\ media' = DeleteMediaRows(orphaned_ids)
               /\ tracking' = DeleteTrackingRows({}, orphaned_ids)
               /\ last' = Call("sweep", "ok", None, None,
                               Some(Cardinality(orphaned_ids)), NoFields)
       /\ UNCHANGED <<today, session>>
       /\ UNCHANGED <<requests, tag>>

\* the sweep on demand
Sweep == cleanup_orphaned_media /\ UNCHANGED sweeper

\* ------------------------------------------------------- tracking.delete
\* CRUDTracking.delete runs in three steps of one session, so that a failure
\* can fall between them: (1) look the entry up, read its media's is_custom
\* and stage db.delete(tracking); (2) if is_custom, media_crud.delete(...,
\* user_id=media_owner_id, commit=False) stages the media row; (3) db.commit().

\* (mutant) the cascade is left out
CascadeIdsNever(is_custom, media_id) == {}
\* (mutant) the cascade ignores is_custom
CascadeIdsAlways(is_custom, media_id) == {media_id}

\* the media rows the cascade stages for deletion
CascadeIds(is_custom, media_id) == IF is_custom THEN {media_id} ELSE {}

TrackingDeleteBegin(user_id, media_id) ==
    LET found == get_by_user_and_media(user_id, media_id)
        done(ret) == Call("tracking.delete", ret, Some(user_id), Some(media_id), None, NoFields)
    IN /\ session.stage = "idle"
       /\ IF found = {}
          THEN session' = session /\ last' = done("false")
          ELSE IF media_id \notin DOMAIN media
          THEN \* tracking.media is None: reading .is_custom raises
               session' = session /\ last' = done("AttributeError")
          ELSE LET id == CHOOSE t \in found : TRUE
               IN /\ session' = [stage |-> "deleted_tracking", uid |-> user_id,
                                 mid |-> media_id, tid |-> id,
                                 del_tracking |-> {id},
                                 del_media |-> CascadeIds(media[media_id].is_custom, media_id)]
                  /\ last' = done("pending")
       /\ UNCHANGED <<media, tracking, today>>
       /\ UNCHANGED <<requests, files, tag, cache, sweeper>>

\* media_crud.delete(db, id=media_id, user_id=media_owner_id, commit=False)
TrackingDeleteCascade ==
    LET id == session.mid
        done(ret) == Call("tracking.delete", ret, Some(session.uid), Some(id), None, NoFields)
    IN /\ session.stage = "deleted_tracking"
       /\ session.del_media # {}
       /\ IF id \notin DOMAIN media
          THEN \* another session has deleted the row: "if not media: return False"
               /\ session' = [session EXCEPT !.stage = "cascaded", !.del_media = {}]
               /\ last' = done("pending")
               /\ UNCHANGED <<files, cache>>
          ELSE IF PermissionDenied(media[id], media[id].created_by_id)
          THEN \* except: await db.rollback(); raise
               session' = Idle /\ last' = done("PermissionDenied")
               /\ UNCHANGED <<files, cache>>
          ELSE \E failing \in SUBSET CoverFiles({id}) :
                  /\ files' = FileCleanup({id}, failing)
                  /\ cache' = clear_pattern(cache, InvalidatedByDelete(media[id]))
                  /\ IF InvalidationRaises(InvalidatedByDelete(media[id]))
                     THEN \* except: await db.rollback(); raise
                          session' = Idle /\ last' = done("CacheError")
                     ELSE /\ session' = [session EXCEPT !.stage = "cascaded"]
                          /\ last' = done("pending")
       /\ UNCHANGED <<media, tracking, today>>
       /\ UNCHANGED <<requests, tag, sweeper>>

\* await db.commit(): both staged deletions become visible together
TrackingDeleteCommit ==
    /\ \/ session.stage = "cascaded"
       \/ session.stage = "deleted_tracking" /\ session.del_media = {}
    /\ tracking' = DeleteTrackingRows(session.del_tracking, session.del_media)
    /\ media' = DeleteMediaRows(session.del_media)
    /\ session' = Idle
    /\ last' = [Call("tracking.delete", "true", Some(session.uid), Some(session.mid),
                      Some(session.tid), NoFields) EXCEPT !.cascade = session.del_media]
    /\ UNCHANGED today
    /\ UNCHANGED <<requests, files, tag, cache, sweeper>>

\* the request dies (an exception, a lost connection, a crash) before its
\* commit: the session is closed and what it staged is rolled back
Abort ==
    /\ session.stage # "idle"
    /\ session' = Idle
    /\ last' = Call("tracking.delete", "aborted", Some(session.uid), Some(session.mid),
                    None, NoFields)
    /\ UNCHANGED <<media, tracking, today>>
    /\ UNCHANGED <<requests, files, tag, cache, sweeper>>

\* ------------------------------------------------- interleaved requests
\* CRUDTracking.create and CRUDMedia._create_with_tags each read first and
\* insert later, with awaits in between: a request r of another session can
\* run its read, let other requests run, and then run its insert.

\* (mutant) the table has no uq_user_media constraint
uq_user_media_absent(user_id, media_id) == TRUE

\* UniqueConstraint("user_id", "media_id", name="uq_user_media"): the INSERT
\* is accepted when no committed row has the pair
uq_user_media(user_id, media_id) ==
    \A t \in DOMAIN tracking :
        ~(tracking[t].user_id = user_id /\ tracking[t].media_id = media_id)

\* CRUDTracking.create up to the existence check
TrackingCreateCheck(r, user_id, obj_in) ==
    LET media_id == obj_in["media_id"][1]
        existing == get_by_user_and_media(user_id, media_id)
    IN /\ r \notin DOMAIN requests
       /\ IF existing # {}
          THEN /\ requests' = requests
               /\ last' = Call("tracking.create", "AlreadyExists", Some(user_id),
                               Some(media_id), None, Supplied(obj_in))
          ELSE /\ requests' = With(requests, r,
                      [op |-> "tracking.create", uid |-> Some(user_id), obj_in |-> obj_in,
                       media_type |-> None])
               /\ last' = Call("tracking.create", "checked", Some(user_id),
                               Some(media_id), None, Supplied(obj_in))
       /\ UNCHANGED <<media, tracking, today, session, files, tag, cache, sweeper>>

\* CRUDTracking.create from Tracking(**obj_data) to db.commit(): the INSERT
\* raises IntegrityError when the pair has been committed meanwhile
TrackingCreateCommit(r) ==
    /\ r \in DOMAIN requests
    /\ requests[r].op = "tracking.create"
    /\ LET user_id  == requests[r].uid[1]
           obj_in   == requests[r].obj_in
           media_id == obj_in["media_id"][1]
           obj      == apply_data_integrity_rules(NewTracking(obj_in, user_id), today)
           id       == NextId(tracking)
       IN IF uq_user_media(user_id, media_id)
          THEN /\ id <= MaxTracking
               /\ tracking' = With(tracking, id, InsertDefaults(obj, obj_in))
               /\ last' = Call("tracking.create", "ok", Some(user_id),
                               Some(media_id), Some(id), Supplied(obj_in))
          ELSE /\ tracking' = tracking
               /\ last' = Call("tracking.create", "IntegrityError", Some(user_id),
                               Some(media_id), None, Supplied(obj_in))
    /\ requests' = Without(requests, {r})
    /\ UNCHANGED <<media, today, session, files, tag, cache, sweeper>>

\* CRUDMedia._create_with_tags up to the two existence lookups
MediaCreateLookup(r, media_type, obj_in, user_id) ==
    LET external_id     == Get(obj_in, "external_id")
        external_source == Get(obj_in, "external_source")
        existing == IF TruthyStr(external_id) /\ TruthyStr(external_source)
                    THEN get_by_external_id(external_id, external_source, media_type)
                    ELSE {}
        owned == Get(obj_in, "is_custom") = Some(TRUE) /\ TruthyId(user_id)
        done(ret, rid) == Call("media.create", ret, user_id, None, rid,
                               With(obj_in, "media_type", Some(media_type)))
    IN /\ r \notin DOMAIN requests
       /\ IF Cardinality(existing) > 1
          THEN requests' = requests /\ last' = done("MultipleResultsFound", None)
          ELSE IF existing # {}
          THEN requests' = requests /\ last' = done("ok", Some(CHOOSE m \in existing : TRUE))
          ELSE IF owned /\ CustomDuplicates(user_id, media_type, obj_in["title"][1]) # {}
          THEN requests' = requests /\ last' = done("AlreadyExists", None)
          ELSE /\ requests' = With(requests, r,
                      [op |-> "media.create", uid |-> user_id, obj_in |-> obj_in,
                       media_type |-> Some(media_type)])
               /\ last' = done("looked_up", None)
       /\ UNCHANGED <<media, tracking, today, session, files, tag, cache, sweeper>>

\* CRUDMedia._create_with_tags from model_class(**obj_data) to db.commit():
\* the media table has no constraint that could refuse the INSERT
MediaCreateInsert(r) ==
    /\ r \in DOMAIN requests
    /\ requests[r].op = "media.create"
    /\ LET obj_in     == requests[r].obj_in
           user_id    == requests[r].uid
           media_type == requests[r].media_type[1]
       IN InsertWithTags(media_type, obj_in, user_id)
    /\ requests' = Without(requests, {r})
    /\ UNCHANGED <<tracking, today, session, files, sweeper>>

\* ----------------------------------------------------- the sweep in steps
\* CRUDMedia.cleanup_orphaned_media as the background task runs it, next to
\* the requests of the users: it lists the orphans once, calls
\* self.delete(db, id=media_id, commit=False) for each listed id, and commits
\* once at the end. The task's session is requests[SweeperTask].
SweeperTask == 0

\* what a finished or failed sweep reports: the ids it listed, the ids it
\* called delete for, and the ids whose delete returned True
SweepReport(req) ==
    [listed |-> Some(req.listed), attempted |-> Some(req.listed \ req.todo),
     deleted |-> Some(req.del_media)]

\* result = await db.execute(stmt); orphaned_ids = list(result.scalars().all())
SweepList ==
    /\ SweeperTask \notin DOMAIN requests
    /\ IF orphaned_media = {}
       THEN /\ requests' = requests
            /\ last' = Call("sweep", "ok", None, None, Some(0),
                            [listed |-> Some({}), attempted |-> Some({}), deleted |-> Some({})])
       ELSE /\ requests' = With(requests, SweeperTask,
                   [op |-> "sweep", listed |-> orphaned_media, todo |-> orphaned_media,
                    del_media |-> {}, del_tracking |-> {}])
            /\ last' = Call("sweep.list", "ok", None, None,
                            Some(Cardinality(orphaned_media)), NoFields)
    /\ UNCHANGED <<media, tracking, today, session, files, tag, cache, sweeper>>

\* one iteration of the loop, for a listed id not yet handled; the orphan
\* query is not run again, self.delete only looks the row up. db_fails: the
\* database raises inside self.delete, whose handler rolls the session back
\* and re-raises, and the loop has no handler of its own
SweepDeleteRow(media_id, db_fails) ==
    /\ SweeperTask \in DOMAIN requests
    /\ LET req  == requests[SweeperTask]
           rest == [req EXCEPT !.todo = req.todo \ {media_id}]
       IN /\ media_id \in req.todo
          /\ IF db_fails
             THEN /\ requests' = Without(requests, {SweeperTask})
                  /\ UNCHANGED <<files, cache>>
                  /\ last' = Call("sweep", "error", None, Some(media_id),
                                  None, SweepReport(rest))
             ELSE IF media_id \notin DOMAIN media
             THEN /\ requests' = [requests EXCEPT ![SweeperTask] = rest]
                  /\ UNCHANGED <<files, cache>>
                  /\ last' = Call("sweep.delete", "false", None, Some(media_id),
                                  None, NoFields)
             ELSE /\ \E failing \in SUBSET CoverFiles({media_id}) :
                        files' = FileCleanup({media_id}, failing)
                  /\ cache' = clear_pattern(cache, InvalidatedByDelete(media[media_id]))
                  /\ IF InvalidationRaises(InvalidatedByDelete(media[media_id]))
                     THEN /\ requests' = Without(requests, {SweeperTask})
                          /\ last' = Call("sweep", "CacheError", None, Some(media_id),
                                          None, SweepReport(rest))
                     ELSE /\ requests' = [requests EXCEPT ![SweeperTask] =
                                 [rest EXCEPT !.del_media = @ \cup {media_id},
                                              !.del_tracking = @ \cup
                                                  {t \in DOMAIN tracking :
                                                      tracking[t].media_id = media_id}]]
                          /\ last' = Call("sweep.delete", "true", None, Some(media_id),
                                          None, NoFields)
    /\ UNCHANGED <<media, tracking, today, session, tag, sweeper>>

\* await db.commit() after the loop: the staged rows go, and with them the
\* tracking entries the relationship cascade had loaded
SweepCommit ==
    /\ SweeperTask \in DOMAIN requests
    /\ LET req == requests[SweeperTask]
       IN /\ req.todo = {}
          /\ media' = Without(media, req.del_media)
          /\ tracking' = Without(tracking, req.del_tracking)
          /\ last' = Call("sweep", "ok", None, None,
                          Some(Cardinality(req.del_media)), SweepReport(req))
    /\ requests' = Without(requests, {SweeperTask})
    /\ UNCHANGED <<today, session, files, tag, cache, sweeper>>

\* ------------------------------------------------------------ input sets
\* P and, for every payload of P and every v of Vs, the payload with k |-> v
Extend(P, k, Vs) == P \cup {With(f, k, v) : f \in P, v \in Vs}
Require(P, k, Vs) == {With(f, k, v) : f \in P, v \in Vs}
OptOf(S) == {Some(v) : v \in S}

\* a payload date is the first day; today moves on from it
SuppliedDays == {1}
\* P, and every payload of P with rating and progress supplied together
Rated(P) == P \cup {With(With(f, "rating", Some(9)), "progress", Some(5)) : f \in P}

\* schemas/tracking.py TrackingCreate: media_id, media_type and status are
\* required, the other fields optional
TrackingCreateInputs ==
    Rated(Extend(Extend(Extend(
        Require(Require(Require({NoFields}, "media_id", OptOf({1})),
                        "media_type", OptOf({"movie"})), "status", OptOf(TrackingStatusEnum)),
        "priority", OptOf({"high"})),
        "start_date", OptOf(SuppliedDays)),
        "end_date", OptOf(SuppliedDays)))

\* schemas/tracking.py TrackingUpdate: every field optional, and an Optional
\* field may be sent as an explicit null
TrackingUpdateInputs ==
    Extend(Extend(Extend(Extend({NoFields},
        "status", OptOf(TrackingStatusEnum) \cup {None}),
        "priority", OptOf({"high"}) \cup {None}),
        "start_date", OptOf(SuppliedDays) \cup {None}),
        "end_date", OptOf(SuppliedDays) \cup {None})
        \cup {[rating |-> Some(9), progress |-> Some(5)], [rating |-> None, progress |-> None]}

\* the create schema with few fields varied
TrackingCreateBrief(statuses) ==
    Require(Require(Require({NoFields}, "media_id", OptOf(1..MaxMedia)),
                    "media_type", OptOf({"movie"})), "status", OptOf(statuses))
\* schemas/media.py MediaCreate: an ingested item carries its external id and
\* source, a custom one is_custom=True
External(title) ==
    [title |-> Some(title), external_id |-> Some("e1"), external_source |-> Some("tmdb")]
Custom(title) == [title |-> Some(title), is_custom |-> Some(TRUE)]
MediaCreateBrief == {External("X"), Custom("X")}
\* schemas/media.py MediaUpdate
MediaUpdateInputs ==
    {[title |-> Some("Y"), tags |-> Some(<< <<"s", "f">> >>)],
     [title |-> None, tags |-> Some(<<>>)]}

\* ------------------------------------------------------ background sweeper
\* sweeper is the task periodic_media_cleanup: pc is where it stands ("off"
\* before the application starts it, "delay" in the first sleep, "sweep" at
\* the top of the loop body, "sleep" in the sleep that ends the body, "ended"
\* after an error left the loop, "cancelled" after cancel()), slept the
\* seconds spent in the current sleep.
StartupDelay == 60
\* 24 * 60 * 60
SweepInterval == 86400

\* asyncio.sleep(...) of the position
SleepTime(pc) == IF pc = "delay" THEN StartupDelay ELSE SweepInterval

\* (mutant) the loop body has no handler
SweeperCatchesNothing(error) == FALSE

\* "except Exception" around the loop body: asyncio.CancelledError is a
\* BaseException and passes it
SweeperCatches(error) == error # "CancelledError"

\* lifespan: asyncio.create_task(periodic_media_cleanup())
SweeperStart ==
    /\ sweeper.pc = "off"
    /\ sweeper' = [pc |-> "delay", slept |-> 0]
    /\ last' = Call("sweeper.start", "ok", None, None, None, NoFields)
    /\ UNCHANGED <<media, tracking, today, session, requests, files, tag, cache>>

\* time passes while the task sleeps, half a sleep at a time
SweeperSleeps ==
    /\ sweeper.pc \in {"delay", "sleep"}
    /\ sweeper.slept < SleepTime(sweeper.pc)
    /\ sweeper' = [sweeper EXCEPT !.slept = @ + SleepTime(sweeper.pc) \div 2]
    /\ last' = Call("sweeper.sleep", "ok", None, None, None, NoFields)
    /\ UNCHANGED <<media, tracking, today, session, requests, files, tag, cache>>

\* asyncio.sleep returns once its time is over
SweeperWakes ==
    /\ sweeper.pc \in {"delay", "sleep"}
    /\ sweeper.slept >= SleepTime(sweeper.pc)
    /\ sweeper' = [pc |-> "sweep", slept |-> 0]
    /\ last' = Call("sweeper.wake", "ok", None, None, None, NoFields)
    /\ UNCHANGED <<media, tracking, today, session, requests, files, tag, cache>>

\* the loop body: one call of cleanup_orphaned_media in a session of its
\* own; db_fails makes the call raise a database error
SweeperRuns(db_fails) ==
    /\ sweeper.pc = "sweep"
    /\ IF db_fails
       THEN /\ UNCHANGED <<media, tracking, today, session, requests, files, tag, cache>>
            /\ last' = Call("sweep", "DatabaseError", None, None, None, NoFields)
            /\ sweeper' = IF SweeperCatches("DatabaseError")
                          THEN [pc |-> "sleep", slept |-> 0]
                          ELSE [pc |-> "ended", slept |-> 0]
       ELSE /\ cleanup_orphaned_media
            /\ sweeper' = IF last'.ret = "ok" \/ SweeperCatches(last'.ret)
                          THEN [pc |-> "sleep", slept |-> 0]
                          ELSE [pc |-> "ended", slept |-> 0]

\* lifespan shutdown: cleanup_task.cancel() raises CancelledError at the
\* await the task stands at
SweeperCancel ==
    /\ sweeper.pc \in {"delay", "sweep", "sleep"}
    /\ sweeper' = IF sweeper.pc = "sweep" /\ SweeperCatches("CancelledError")
                  THEN [pc |-> "sleep", slept |-> 0]
                  ELSE [pc |-> "cancelled", slept |-> 0]
    /\ last' = Call("sweeper.cancel", "ok", None, None, None, NoFields)
    /\ UNCHANGED <<media, tracking, today, session, requests, files, tag, cache>>

\* ---------------------------------------------------------- specifications
Init ==
    /\ media = [m \in {} |-> None]
    /\ tracking = [t \in {} |-> None]
    /\ today = 1
    /\ session = Idle
    /\ last = Call("init", "ok", None, None, None, NoFields)
    /\ requests = NoRequests
    /\ files = {}
    /\ tag = [t \in {} |-> None]
    /\ cache = [up |-> TRUE, keys |-> {}]
    /\ sweeper = [pc |-> "off", slept |-> 0]

\* the tracking lifecycle around deletion: two users, custom and ingested
\* media, every step of tracking.delete and its failure
Next ==
    \/ \E p \in MediaCreateBrief : MediaCreate("movie", p, Some(1))
    \/ \E u \in Users, p \in TrackingCreateBrief({COMPLETED}) : TrackingCreate(u, p)
    \/ \E u \in Users, m \in 1..MaxMedia : TrackingDeleteBegin(u, m)
    \/ TrackingDeleteCascade
    \/ TrackingDeleteCommit
    \/ Abort
    \/ \E m \in 1..MaxMedia, u \in OptOf(Users) : MediaDelete(m, u)
    \/ Sweep

Spec == Init /\ [][Next]_vars

\* ingestion: create calls of both kinds, with or without a user, and the
\* system's delete
NextIngest ==
    \/ \E k \in MediaTypeEnum, p \in {External("X"), External("Y"), Custom("X")},
          u \in {None, Some(1)} : MediaCreate(k, p, u)
    \/ \E m \in 1..MaxMedia : MediaDelete(m, None)

SpecIngest == Init /\ [][NextIngest]_vars

\* ownership: update and delete calls by either user or by the system
\* (user_id None) on custom and ingested rows
NextOwnership ==
    \/ \E p \in MediaCreateBrief, u \in OptOf(Users) \cup {None} :
          MediaCreate("movie", p, u)
    \/ \E m \in 1..MaxMedia, p \in MediaUpdateInputs, u \in OptOf(Users) \cup {None} :
          MediaUpdate(m, "movie", p, u)
    \/ \E m \in 1..MaxMedia, u \in OptOf(Users) \cup {None} : MediaDelete(m, u)
    \/ \E p \in TrackingCreateBrief({PLANNED}) : p["media_id"] = Some(1) /\ TrackingCreate(1, p)

SpecOwnership == Init /\ [][NextOwnership]_vars

\* the status rules: user 2 tracking the one catalog row, tracking payloads in full
NextTracking ==
    \/ MediaCreate("movie", External("X"), None)
    \/ \E p \in TrackingCreateInputs : TrackingCreate(2, p)
    \/ \E p \in TrackingUpdateInputs : TrackingUpdate(2, 1, p)
    \/ Tick

SpecTracking == Init /\ [][NextTracking]_vars

\* races: two requests of either kind between their read and their insert
NextRace ==
    \/ \E r \in 1..MaxRequests, p \in {External("X"), External("Y")} :
          MediaCreateLookup(r, "movie", p, None)
    \/ \E r \in 1..MaxRequests : MediaCreateInsert(r)
    \/ \E r \in 1..MaxRequests, p \in TrackingCreateBrief({COMPLETED}) :
          TrackingCreateCheck(r, 1, p)
    \/ \E r \in 1..MaxRequests : TrackingCreateCommit(r)

SpecRace == Init /\ [][NextRace]_vars

\* the background sweep next to users who create media and attach tracking
\* entries, with the database failing on some rows
NextSweep ==
    \/ \E p \in MediaCreateBrief : MediaCreate("movie", p, Some(1))
    \/ \E p \in TrackingCreateBrief({COMPLETED}) : TrackingCreate(2, p)
    \/ SweepList
    \/ \E m \in 1..MaxMedia, db_fails \in BOOLEAN : SweepDeleteRow(m, db_fails)
    \/ SweepCommit

SpecSweep == Init /\ [][NextSweep]_vars

\* cover images: uploads, custom media with a local, a remote or no cover,
\* and deletes by the owner, by another user and by the system
WithCover(P) ==
    Extend(P, "cover_image_url", OptOf({"/static/images/a.png", "http://img/a.png"}))

NextAssets ==
    \/ \E url \in {"/static/images/a.png"} : UploadImage(url)
    \/ \E p \in WithCover({Custom("X"), External("X")}), u \in OptOf(Users) :
          MediaCreate("movie", p, u)
    \/ \E m \in 1..MaxMedia, u \in OptOf(Users) \cup {None} : MediaDelete(m, u)

SpecAssets == Init /\ [][NextAssets]_vars

\* the result cache: provider responses are cached, the store comes and
\* goes, and media rows are created, updated and deleted directly, through
\* the tracking cascade and by the sweep
CacheKeys == {SearchKey("tmdb"), ItemKey("tmdb", "e1")}
\* updates of the title, without tags
CacheUpdates == {[title |-> Some("Y")], [title |-> None]}

NextCache ==
    \/ \E key \in CacheKeys : CacheSet(key)
    \/ CacheOutage
    \/ \E p \in MediaCreateBrief : MediaCreate("movie", p, Some(1))
    \/ \E m \in 1..MaxMedia, p \in CacheUpdates : MediaUpdate(m, "movie", p, None)
    \/ \E m \in 1..MaxMedia : MediaDelete(m, None)
    \/ \E p \in TrackingCreateBrief({COMPLETED}) : TrackingCreate(1, p)
    \/ \E m \in 1..MaxMedia : TrackingDeleteBegin(1, m)
    \/ TrackingDeleteCascade
    \/ TrackingDeleteCommit
    \/ Sweep

SpecCache == Init /\ [][NextCache]_vars

\* tags: get_or_create under names that differ in case, in the surrounding
\* blanks, in the separator, and with a LIKE wildcard in them
TagNames ==
    {<<"S", "f">>, <<"s", "f">>, <<"S", "F">>, <<" ", "s", "f">>, <<"s", "f", " ">>,
     <<"S", "-", "F">>, <<"s", " ", "f">>, <<"s", "_", "f">>, <<"S", "_", "F">>}

NextTags == \E raw_name \in TagNames : TagGetOrCreate(raw_name)

SpecTags == Init /\ [][NextTags]_vars

\* media rows and their tags: custom rows are created with a tag list, and
\* updated with a tag list, with a title only, or with tags: null; the lists
\* hold a name twice in two cases, a blank name, two names of one slug, and
\* a name with a LIKE wildcard in it
TagLists ==
    {<<>>,
     << <<"s", "f">> >>,
     << <<"S", "F">>, <<" ", "s", "f">>, <<" ">> >>,
     << <<"S", "-", "F">> >>,
     << <<"S", "-", "F">>, <<"s", " ", "f">> >>,
     << <<"s", "_", "f">> >>}

MediaTagUpdates ==
    {[tags |-> Some(l)] : l \in TagLists}
       \cup {[title |-> Some("Y")], [tags |-> None],
             [title |-> Some("Y"), tags |-> Some(<< <<"s", "f">>, <<"S", "-", "F">> >>)]}

NextMediaTags ==
    \/ \E l \in TagLists :
          MediaCreate("movie", With(Custom("X"), "tags", Some(l)), Some(1))
    \/ \E m \in 1..MaxMedia, p \in MediaTagUpdates : MediaUpdate(m, "movie", p, Some(1))

SpecMediaTags == Init /\ [][NextMediaTags]_vars

\* the background sweeper from application start to shutdown, next to a
\* user who creates media and tracks it; the task is scheduled fairly while
\* it lives
NextSweeper ==
    \/ SweeperStart
    \/ SweeperSleeps
    \/ SweeperWakes
    \/ \E db_fails \in BOOLEAN : SweeperRuns(db_fails)
    \/ SweeperCancel
    \/ \E p \in MediaCreateBrief : MediaCreate("movie", p, Some(1))
    \/ \E p \in TrackingCreateBrief({COMPLETED}) : TrackingCreate(1, p)

SpecSweeper ==
    /\ Init /\ [][NextSweeper]_vars
    /\ WF_vars(SweeperStart) /\ WF_vars(SweeperSleeps) /\ WF_vars(SweeperWakes)
    /\ WF_vars(\E db_fails \in BOOLEAN : SweeperRuns(db_fails))

\* listings: one user's entries, planned with any priority or completed,
\* listed with and without a status filter and a sort key
ListingCreates ==
    Extend(TrackingCreateBrief({PLANNED, COMPLETED}), "priority", OptOf(TrackingPriorityEnum))

NextListing ==
    \/ \E p \in ListingCreates : TrackingCreate(1, p)
    \/ \E status \in OptOf({PLANNED, COMPLETED}) \cup {None},
          sort_by \in OptOf({"priority", "created_at", "rating"}) \cup {None} :
          TrackingList(1, status, sort_by)

SpecListing == Init /\ [][NextListing]_vars

\* covers and deferred commits: a custom row is created with an uploaded
\* cover, tracked, and deleted through the tracking cascade or by the sweep
\* in steps, each of which can fail before its commit
NextCovers ==
    \/ UploadImage("/static/images/a.png")
    \/ /\ "/static/images/a.png" \in files
       /\ MediaCreate("movie",
                      With(Custom("X"), "cover_image_url", Some("/static/images/a.png")),
                      Some(1))
    \/ \E p \in TrackingCreateBrief({COMPLETED}) : TrackingCreate(1, p)
    \/ \E m \in 1..MaxMedia : TrackingDeleteBegin(1, m)
    \/ TrackingDeleteCascade
    \/ TrackingDeleteCommit
    \/ Abort
    \/ SweepList
    \/ \E m \in 1..MaxMedia, db_fails \in BOOLEAN : SweepDeleteRow(m, db_fails)
    \/ SweepCommit

SpecCovers == Init /\ [][NextCovers]_vars

\* media kinds: rows of either kind, and create requests for them that name
\* either kind
KindCreates ==
    Require(Require(Require({NoFields}, "media_id", OptOf(1..MaxMedia)),
                    "media_type", OptOf(MediaTypeEnum)),
            "status", OptOf({PLANNED, COMPLETED}))

NextKinds ==
    \/ \E k \in MediaTypeEnum : MediaCreate(k, External("X"), None)
    \/ \E u \in Users, p \in KindCreates : TrackingCreate(u, p)
    \/ \E u \in Users, m \in 1..MaxMedia :
          TrackingUpdate(u, m, [status |-> Some(IN_PROGRESS)])

SpecKinds == Init /\ [][NextKinds]_vars

\* the rule set on its own: an entry with any status and any field values,
\* as it can stand in memory after the setattr loop, has the rules applied
\* again and again while the days pass
AnyTracking ==
    [user_id : {1}, media_id : {1}, media_type : {"movie"},
     status : OptOf(TrackingStatusEnum) \cup {None},
     priority : {None, Some("high")},
     rating : {None, Some(9)},
     progress : {None, Some(0), Some(5)},
     start_date : OptOf(Days) \cup {None},
     end_date : OptOf(Days) \cup {None}]

InitRules ==
    /\ media = [m \in {} |-> None]
    /\ tracking \in {[t \in {1} |-> row] : row \in AnyTracking}
    /\ today = 1
    /\ session = Idle
    /\ last = Call("init", "ok", None, None, None, NoFields)
    /\ requests = NoRequests
    /\ files = {}
    /\ tag = [t \in {} |-> None]
    /\ cache = [up |-> TRUE, keys |-> {}]
    /\ sweeper = [pc |-> "off", slept |-> 0]

\* await self._apply_data_integrity_rules(db_obj) on the day d; rid counts
\* whether this is the first application or a repeated one
RulesApply ==
    \E d \in Days :
        /\ d >= today
        /\ today' = d
        /\ tracking' = [t \in DOMAIN tracking |-> apply_data_integrity_rules(tracking[t], d)]
        /\ last' = Call("rules", "ok", None, None,
                        IF last.op = "rules" THEN Some(2) ELSE Some(1), NoFields)
        /\ UNCHANGED <<media, session>>
        /\ UNCHANGED <<requests, files, tag, cache, sweeper>>

NextRules == RulesApply

SpecRules == InitRules /\ [][NextRules]_vars


\* ------------------------------------------------------------------ claims
\* the row a finished tracking.create / tracking.update wrote
WroteTracking(call) ==
    call.op \in {"tracking.create", "tracking.update"} /\ call.ret = "ok"

\* the value the rules see for a field: the payload's when the field was
\* supplied (an explicit null included), the stored one otherwise; a create
\* has no stored value
Merged(call, field, stored) ==
    IF field \in DOMAIN call.args THEN call.args[field]
    ELSE IF call.op = "tracking.update" THEN stored[field] ELSE None

C5_PriorityOnlyForPlanned ==
    /\ \A t \in DOMAIN tracking :
          tracking[t].status # Some(PLANNED) => tracking[t].priority = None
    /\ (WroteTracking(last) /\ "priority" \in DOMAIN last.args
          /\ tracking[last.rid[1]].status = Some(PLANNED))
       => tracking[last.rid[1]].priority = last.args["priority"]

\* an update that supplied a priority left an entry that is not planned
C5_Witness ==
    /\ last.op = "tracking.update" /\ last.ret = "ok"
    /\ Get(last.args, "priority") = Some("high")
    /\ tracking[last.rid[1]].status = Some(ON_HOLD)
    /\ tracking[last.rid[1]].priority = None

\* C6: after any tracking create or update the stored end_date is non-null
\* exactly when the status is completed or dropped; for completed/dropped it
\* is the end_date the call supplied, else the one already stored, and today
\* when there is none (an explicit null in the payload unsets the stored one).
C6_EndDate ==
    [][ /\ \A t \in DOMAIN tracking' :
              tracking'[t].end_date # None
                 <=> tracking'[t].status \in {Some(COMPLETED), Some(DROPPED)}
        /\ WroteTracking(last') =>
              LET row == tracking'[last'.rid[1]]
                  eff == Merged(last', "end_date", tracking[last'.rid[1]])
              IN row.status \in {Some(COMPLETED), Some(DROPPED)} =>
                    row.end_date = IF eff # None THEN eff ELSE Some(today)
      ]_vars

\* an update on a later day moved a completed entry to dropped without
\* supplying end_date, and the stored end_date stayed
C6_Witness ==
    /\ last.op = "tracking.update" /\ last.ret = "ok"
    /\ "end_date" \notin DOMAIN last.args
    /\ tracking[last.rid[1]].status = Some(DROPPED)
    /\ tracking[last.rid[1]].end_date = Some(1)
    /\ tracking[last.rid[1]].start_date = Some(2)
    /\ today = 2

\* C7: after any tracking create or update that leaves status = in_progress,
\* start_date is non-null: the start_date the call supplied, else the one
\* already stored, and today when there is none (an explicit null in the
\* payload unsets the stored one).
C7_StartDate ==
    [][ WroteTracking(last') =>
          LET row == tracking'[last'.rid[1]]
              eff == Merged(last', "start_date", tracking[last'.rid[1]])
          IN row.status = Some(IN_PROGRESS) =>
                /\ row.start_date # None
                /\ row.start_date = IF eff # None THEN eff ELSE Some(today)
      ]_vars

\* an update on the second day left an in_progress entry with the start_date
\* stored on the first day
C7_Witness ==
    /\ last.op = "tracking.update" /\ last.ret = "ok"
    /\ "start_date" \notin DOMAIN last.args
    /\ tracking[last.rid[1]].status = Some(IN_PROGRESS)
    /\ tracking[last.rid[1]].start_date = Some(1)
    /\ today = 2

\* the tracking rows of a (user, media) pair
EntriesOf(table, uid, mid) ==
    {t \in DOMAIN table : table[t].user_id = uid /\ table[t].media_id = mid}

C2_AtomicCascade ==
    [][ /\ (last'.op = "tracking.delete" /\ last'.ret = "true"
              /\ media[last'.mid[1]].is_custom)
           => /\ EntriesOf(tracking', last'.uid[1], last'.mid[1]) = {}
              /\ last'.mid[1] \notin DOMAIN media'
        /\ \A t \in DOMAIN tracking \ DOMAIN tracking' :
              (tracking[t].media_id \in DOMAIN media /\ media[tracking[t].media_id].is_custom)
              => tracking[t].media_id \notin DOMAIN media'
      ]_vars

\* a delete returned true after removing the custom media row with the entry,
\* while another media row and its entry stayed
C2_Witness ==
    /\ last.op = "tracking.delete" /\ last.ret = "true"
    /\ last.cascade = {last.mid[1]}
    /\ last.mid[1] \notin DOMAIN media
    /\ DOMAIN media # {} /\ DOMAIN tracking # {}

\* C9: tracking.delete on an entry whose media is not custom removes only that
\* entry: the media table, the row's fields and tags included, is unchanged.
C9_ExternalMediaKept ==
    [][ (last'.op = "tracking.delete" /\ last'.ret = "true"
           /\ ~media[last'.mid[1]].is_custom)
        => /\ media' = media
           /\ tracking' = Without(tracking, {last'.rid[1]})
           /\ tracking[last'.rid[1]].user_id = last'.uid[1]
           /\ tracking[last'.rid[1]].media_id = last'.mid[1]
      ]_vars

\* a delete returned true and the media row it named is still there, not custom
C9_Witness ==
    /\ last.op = "tracking.delete" /\ last.ret = "true"
    /\ last.mid[1] \in DOMAIN media
    /\ ~media[last.mid[1]].is_custom
    /\ EntriesOf(tracking, last.uid[1], last.mid[1]) = {}

\* the (external_id, external_source, kind) key of a create-media call
ExternalKey(call) ==
    <<Get(call.args, "external_id"), Get(call.args, "external_source"),
      Get(call.args, "media_type")>>

\* C3: a create-media call that directly follows a successful one with the same
\* non-empty (external_id, external_source, kind) returns the same row id, adds
\* no media row and leaves the stored row as it was, whatever else its payload says.
C3_CreateExternalIdempotent ==
    [][ (/\ last.op = "media.create" /\ last.ret = "ok"
         /\ last'.op = "media.create"
         /\ TruthyStr(Get(last.args, "external_id"))
         /\ TruthyStr(Get(last.args, "external_source"))
         /\ ExternalKey(last') = ExternalKey(last))
        => /\ last'.ret = "ok"
           /\ last'.rid = last.rid
           /\ media' = media
      ]_vars

\* a create call returned an existing row whose stored title is not the one
\* in its payload
C3_Witness ==
    /\ last.op = "media.create" /\ last.ret = "ok"
    /\ TruthyStr(Get(last.args, "external_id"))
    /\ last.rid[1] \in DOMAIN media
    /\ media[last.rid[1]].title # last.args["title"][1]
    /\ Cardinality({m \in DOMAIN media : media[m].external_id = last.args["external_id"]
                                          /\ media[m].media_type = last.args["media_type"][1]}) = 1

\* C4: a media update or delete called with a user id on an existing row
\* succeeds only when the row is custom and was created by that user; otherwise
\* it fails with PermissionDenied and the media table (fields and tags) and the
\* tracking table stay as they were.
C4_OwnerOnly ==
    [][ (/\ last'.op \in {"media.update", "media.delete"}
         /\ last'.uid # None
         /\ last'.ret # "NotFound" /\ last'.ret # "false")
        => LET row == media[last'.mid[1]]
               allowed == row.is_custom /\ row.created_by_id = last'.uid
           IN /\ last'.ret \in {"ok", "true"} => allowed
              /\ ~allowed => /\ last'.ret = "PermissionDenied"
                             /\ media' = media
                             /\ tracking' = tracking
      ]_vars

\* a user's update or delete of another user's custom row, which has tags and
\* a tracking entry, was refused
C4_Witness ==
    /\ last.op \in {"media.update", "media.delete"}
    /\ last.ret = "PermissionDenied"
    /\ last.uid # None
    /\ media[last.mid[1]].is_custom
    /\ media[last.mid[1]].created_by_id # None
    /\ media[last.mid[1]].created_by_id # last.uid
    /\ media[last.mid[1]].tags # {}
    /\ \E t \in DOMAIN tracking : tracking[t].media_id = last.mid[1]

\* C8: applying the rule set to an entry a second time in a row, on the same
\* or a later day, leaves the entry exactly as the first application made it,
\* whatever status and field values it started from.
C8_RulesIdempotent ==
    [][ (last.op = "rules" /\ last'.op = "rules") => tracking' = tracking ]_vars

\* the rules ran a second time, a day after the first run stamped the end
\* date of a completed entry, and the stamp is still the first day
C8_Witness ==
    /\ last.op = "rules" /\ last.rid = Some(2)
    /\ today > 1
    /\ tracking[1].status = Some(COMPLETED)
    /\ tracking[1].end_date = Some(1)
    /\ tracking[1].priority = None

\* C11: no two tracking entries share (user_id, media_id), also when two
\* create requests for the pair both pass the existence check before either
\* commits.
C11_OneEntryPerPair ==
    \A t1, t2 \in DOMAIN tracking :
        (tracking[t1].user_id = tracking[t2].user_id
           /\ tracking[t1].media_id = tracking[t2].media_id) => t1 = t2

\* a create that had passed the existence check was refused at its commit,
\* the pair having been committed by the other request
C11_Witness ==
    /\ last.op = "tracking.create" /\ last.ret = "IntegrityError"
    /\ EntriesOf(tracking, last.uid[1], last.mid[1]) # {}

\* the media rows that carry a dedup key
Keyed(table) ==
    {m \in DOMAIN table : TruthyStr(table[m].external_id) /\ TruthyStr(table[m].external_source)}

\* C12: the dedup key (external_id, external_source, kind) is unique among
\* the media rows that have both external fields set, also after two create
\* requests for the same key ran their lookups before either inserted.
C12_DedupKeyUnique ==
    \A m1, m2 \in Keyed(media) :
        (media[m1].external_id = media[m2].external_id
           /\ media[m1].external_source = media[m2].external_source
           /\ media[m1].media_type = media[m2].media_type) => m1 = m2

\* C13: a sweep that runs with nothing else in flight deletes exactly the
\* media rows no tracking entry refers to, custom or not, leaves the other
\* media rows and all tracking entries as they were, and returns the number
\* of rows it deleted.
C13_SweepExact ==
    [][ last'.op = "sweep"
        => LET referenced == {tracking[t].media_id : t \in DOMAIN tracking}
           IN /\ DOMAIN media' = DOMAIN media \cap referenced
              /\ \A m \in DOMAIN media' : media'[m] = media[m]
              /\ tracking' = tracking
              /\ last'.rid = Some(Cardinality(DOMAIN media \ DOMAIN media'))
      ]_vars

\* a sweep deleted one row and kept the custom rows, each of them referenced
C13_Witness ==
    /\ last.op = "sweep" /\ last.rid = Some(1)
    /\ DOMAIN media # {}
    /\ \A m \in DOMAIN media : media[m].is_custom
                                /\ \E t \in DOMAIN tracking : tracking[t].media_id = m

\* the media rows some tracking entry refers to
Referenced(table) == {table[t].media_id : t \in DOMAIN table}

\* C14: the sweeper deletes no media row that has a tracking entry at the
\* moment of deletion: a row that got an entry after the sweeper listed it
\* is not deleted by the sweeper's loop, and every row that has an entry when
\* the sweep commits survives the commit together with its entries.
C14_SweepSparesAttached ==
    [][ /\ (last'.op = "sweep.delete" /\ last'.ret = "true")
           => last'.mid[1] \notin Referenced(tracking)
        /\ (last'.op = "sweep" /\ last'.ret = "ok")
           => /\ DOMAIN media \cap Referenced(tracking) \subseteq DOMAIN media'
              /\ tracking' = tracking
      ]_vars

\* C15: a sweep that ends, with or without a failure, has called delete for
\* every orphan of its list.
C15_SweepContinues ==
    last.op = "sweep" => last.args["attempted"] = last.args["listed"]

\* C16: after a sweep that failed part-way, the media rows whose delete had
\* returned True before the failure are gone.
C16_DeletedStayDeleted ==
    (last.op = "sweep" /\ last.ret = "error")
        => \A m \in last.args["deleted"][1] : m \notin DOMAIN media

\* C17: in media delete, a failing removal of the local cover file neither
\* prevents nor undoes the row deletion: the call returns true and the row
\* is gone, the file still being on disk.
C17_FileFailureDoesNotBlock ==
    [][ (last'.op = "media.delete" /\ Get(last'.args, "unlink") = Some("failed"))
        => /\ last'.ret = "true"
           /\ last'.mid[1] \in DOMAIN media
           /\ last'.mid[1] \notin DOMAIN media'
           /\ files' = files
      ]_vars

\* a delete returned true for a row whose cover file could not be removed
\* and is still on disk
C17_Witness ==
    /\ last.op = "media.delete" /\ last.ret = "true"
    /\ Get(last.args, "unlink") = Some("failed")
    /\ last.mid[1] \notin DOMAIN media
    /\ "/static/images/a.png" \in files

Fold(name) == Lower(Strip(name))

\* C19: get_or_create under a name that differs from an existing tag's name
\* only in case or surrounding blanks returns that tag's id and creates
\* nothing; the id a call returns is the id every name that differs from its
\* name only that way is resolved to from then on, so such calls return the
\* same id every time; and no two tag rows have names that differ only that
\* way.
C19_GetOrCreateFoldsCase ==
    [][ last'.op = "tag.get_or_create"
        => LET same == {t \in DOMAIN tag : Fold(tag[t].name) = Fold(last'.args["name"][1])}
           IN /\ same # {} => /\ last'.ret = "ok"
                              /\ last'.rid[1] \in same
                              /\ tag' = tag
              /\ last'.ret = "ok"
                    => \A n \in TagNames :
                          Fold(n) = Fold(last'.args["name"][1])
                             => get_by_name(Strip(n))' = last'.rid
              /\ \A t1, t2 \in DOMAIN tag' :
                    Fold(tag'[t1].name) = Fold(tag'[t2].name) => t1 = t2
      ]_vars

\* a call with an upper-case name padded by a blank or not returned the tag
\* that was created under another spelling
C19_Witness ==
    /\ last.op = "tag.get_or_create" /\ last.ret = "ok"
    /\ last.rid[1] \in DOMAIN tag
    /\ tag[last.rid[1]].name # Strip(last.args["name"][1])
    /\ Fold(tag[last.rid[1]].name) = Fold(last.args["name"][1])

\* C20: get_or_create for a name that matches no existing tag succeeds, also
\* when its slug is the slug of an existing tag: a tag row is created, and
\* all tag slugs are distinct.
C20_SlugCollisionResolved ==
    [][ (last'.op = "tag.get_or_create"
           /\ get_by_name(Strip(last'.args["name"][1])) = None)
        => /\ last'.ret = "ok"
           /\ last'.rid[1] \in DOMAIN tag' \ DOMAIN tag
           /\ \A t1, t2 \in DOMAIN tag' : tag'[t1].slug = tag'[t2].slug => t1 = t2
      ]_vars

\* the names of a tag list as the tag set keeps them: stripped, the blank
\* ones left out, compared without regard to case
FoldedNames(tag_names) ==
    {Fold(tag_names[i]) : i \in 1..Len(tag_names)} \ {<<>>}

\* C21: after a media update whose payload has the tags key with a list
\* (the empty list too), the names of the media's tags are exactly the
\* non-blank supplied names, compared without regard to case; after an update
\* without the tags key the media's tags are the ones it had.
C21_UpdateReplacesTags ==
    [][ (last'.op = "media.update" /\ last'.ret = "ok")
        => LET p  == last'.args
               id == last'.mid[1]
           IN /\ ("tags" \in DOMAIN p /\ p["tags"] # None)
                    => {Fold(tag'[t].name) : t \in media'[id].tags}
                          = FoldedNames(p["tags"][1])
              /\ "tags" \notin DOMAIN p => media'[id].tags = media[id].tags
      ]_vars

\* C22: a media create or update that ends in an error leaves the media
\* table, rows, fields and tag sets, as it was.
C22_TagsAllOrNothing ==
    [][ (last'.op \in {"media.create", "media.update"} /\ last'.ret # "ok")
        => media' = media
      ]_vars

\* C23: every media row with is_custom true has a creator, and every row
\* with is_custom false has none, after any create (with or without a user
\* id) and any update.
C23_CustomHasCreator ==
    \A m \in DOMAIN media :
        media[m].is_custom <=> media[m].created_by_id # None

\* C24: the sweeper task starts a sweep only when the startup delay is over
\* (the first one) or a full interval has passed since the last one; after
\* each sweep, failed or not, it is back in the interval sleep, so an error
\* of one sweep does not end the loop; once cancelled it stays cancelled and
\* sweeps no more; and as long as it is not cancelled it sweeps again and
\* again.
C24_SweeperLoop ==
    /\ [][ /\ (sweeper'.pc = "sweep" /\ sweeper.pc # "sweep")
              => /\ sweeper.pc \in {"delay", "sleep"}
                 /\ sweeper.slept >= (IF sweeper.pc = "delay" THEN StartupDelay
                                      ELSE SweepInterval)
           /\ (last'.op = "sweep" /\ sweeper # sweeper')
              => /\ sweeper.pc = "sweep"
                 /\ sweeper' = [pc |-> "sleep", slept |-> 0]
           /\ sweeper'.pc = "ended" => sweeper.pc = "ended"
           /\ last'.op = "sweeper.cancel" => sweeper'.pc = "cancelled"
           /\ sweeper.pc = "cancelled" => sweeper'.pc = "cancelled" /\ last'.op # "sweep"
         ]_vars
    /\ []<>(sweeper.pc = "sweep") \/ <>[](sweeper.pc = "cancelled")

\* a sweep of the task raised, with an orphan in the table, and the task is
\* in its interval sleep
C24_Witness ==
    /\ last.op = "sweep" /\ last.ret = "DatabaseError"
    /\ sweeper.pc = "sleep"
    /\ DOMAIN media # {}

\* the place of a priority in the order high, mid, low, none
Rank(priority) ==
    IF priority = Some("high") THEN 3 ELSE IF priority = Some("mid") THEN 2
    ELSE IF priority = Some("low") THEN 1 ELSE 0

\* C25: a listing of a user's entries holds each entry that passes the status
\* filter once; sorted by priority, or filtered to planned with no sort given,
\* it runs from high over mid and low to no priority, entries of one priority
\* by descending id; with another status filter and no sort it runs by
\* descending id.
C25_ListingOrder ==
    last.op = "tracking.list"
    => LET status  == last.args["status"]
           sort_by == last.args["sort_by"]
           result  == last.args["result"][1]
           listed  == {t \in DOMAIN tracking :
                          /\ tracking[t].user_id = last.uid[1]
                          /\ status # None => tracking[t].status = status}
           by_priority == sort_by = Some("priority")
                             \/ (sort_by = None /\ status = Some(PLANNED))
           by_id       == sort_by = None /\ status \notin {None, Some(PLANNED)}
       IN /\ {result[i] : i \in 1..Len(result)} = listed
          /\ Len(result) = Cardinality(listed)
          /\ \A i, j \in 1..Len(result) :
                i < j =>
                   LET a == tracking[result[i]]
                       b == tracking[result[j]]
                   IN /\ by_priority
                         => \/ Rank(a.priority) > Rank(b.priority)
                            \/ Rank(a.priority) = Rank(b.priority) /\ result[i] > result[j]
                      /\ by_id => result[i] > result[j]

\* a planned-only listing without sort key put the older high entry before
\* the newer low one
C25_Witness ==
    /\ last.op = "tracking.list"
    /\ last.args["sort_by"] = None /\ last.args["status"] = Some(PLANNED)
    /\ Len(last.args["result"][1]) = 2
    /\ last.args["result"][1][1] < last.args["result"][1][2]
    /\ tracking[last.args["result"][1][1]].priority = Some("high")
    /\ tracking[last.args["result"][1][2]].priority = Some("low")

\* C26: tracking.delete(user, media) removes the entry of (user, media) and
\* no other: every other tracking entry, another user's entry for the same
\* custom media among them, is still there afterwards.
C26_DeleteRemovesOneEntry ==
    [][ (last'.op = "tracking.delete" /\ last'.ret = "true")
        => \A t \in DOMAIN tracking :
              t # last'.rid[1] => t \in DOMAIN tracking' /\ tracking'[t] = tracking[t]
      ]_vars

\* C27: the media_id of every tracking entry is the id of a media row.
C27_TrackingRefersToMedia ==
    \A t \in DOMAIN tracking : tracking[t].media_id \in DOMAIN media

\* C28: when no delete is in flight, every media row with a local cover
\* image has its file on disk: a delete that was rolled back, or whose commit
\* never came, has not removed the file of the row that remains.
C28_FileGoesWithRow ==
    (session.stage = "idle" /\ SweeperTask \notin DOMAIN requests)
    => \A m \in DOMAIN media :
          media[m].cover_image_url \in OptOf(LocalImages)
             => media[m].cover_image_url[1] \in files

\* C29: an update that does not supply start_date and leaves the entry in
\* one of in_progress, on_hold, completed and dropped keeps a start_date
\* that was set; only an update to planned or one that supplies start_date
\* changes it.
C29_StartDateSticks ==
    [][ ( /\ last'.op = "tracking.update" /\ last'.ret = "ok"
          /\ tracking[last'.rid[1]].start_date # None
          /\ "start_date" \notin DOMAIN last'.args
          /\ tracking'[last'.rid[1]].status
                \in OptOf({IN_PROGRESS, ON_HOLD, COMPLETED, DROPPED}) )
        => tracking'[last'.rid[1]].start_date = tracking[last'.rid[1]].start_date
      ]_vars

\* an entry started on an earlier day went back to in_progress today and
\* kept the day it was started
C29_Witness ==
    /\ last.op = "tracking.update" /\ last.ret = "ok"
    /\ "start_date" \notin DOMAIN last.args
    /\ tracking[last.rid[1]].status = Some(IN_PROGRESS)
    /\ tracking[last.rid[1]].start_date # None
    /\ tracking[last.rid[1]].start_date[1] < today

\* C30: a tracking entry whose media row exists has the media_type of that
\* row, whatever media_type the create request supplied.
C30_EntryKindIsMediaKind ==
    \A t \in DOMAIN tracking :
        tracking[t].media_id \in DOMAIN media
            => tracking[t].media_type = media[tracking[t].media_id].media_type

====
